---- MODULE Spec2Model ----
(***************************************************************************)
(* A model of sagenb_export/sagenb_reader.py: the worksheet parser         *)
(* (WorksheetParser), and the two derived views of a compute cell          *)
(* (ComputeCell.ipython_input and ComputeCell.plain_text_output).          *)
(*                                                                         *)
(* Text is modelled character by character: a Python string is a sequence  *)
(* of one-character strings, so that matching, trimming, joining and       *)
(* searching are computed as the code computes them.                       *)
(*                                                                         *)
(* Four specifications share the module:                                   *)
(*   Spec         one iteration of WorksheetParser over a document         *)
(*   SpecRewrite  ComputeCell.ipython_input, applied and re-applied        *)
(*   SpecOutput   ComputeCell.plain_text_output, applied and re-applied    *)
(*   SpecIter     two iterations over one worksheet text, on one parser    *)
(*                instance or on two                                       *)
(***************************************************************************)
EXTENDS Integers, Sequences, FiniteSets

VARIABLES
    \* ---- WorksheetParser (object fields) ----
    worksheet_lines,   \* self.worksheet_lines: the document, a sequence of lines
    pos,               \* self.pos: 0-based cursor
    index,             \* self.index: last captured cell index, initially -1
    \* ---- the generator returned by __iter__ ----
    pc,                \* where the generator stands
    accumulator,       \* the local list of the read helper that is running
    input,             \* the local `input` of _read_cell
    cells,             \* the cells yielded so far, in order
    error,             \* "none", or the exception that ended the iteration
    \* ---- history of the parse (not program state) ----
    openPos,           \* cursor of the marker consumed by _read_cell_input
    origin,            \* per yielded cell: the cursor of its open marker, or -1
    passStart,         \* cursor at the last entry into the body of the main loop
    \* ---- ComputeCell.ipython_input ----
    rwInput,           \* self.input of the call
    rwLines,           \* what the iterator `lines` has not produced yet
    res,               \* the local res
    rwPc,              \* "scan" (first loop), "copy" (second loop), "done"
    rwFirst,           \* the value returned by the first application
    rwPass,            \* 1: first application, 2: re-application to its result
    \* ---- ComputeCell.plain_text_output ----
    voOutput,          \* self.output of the call
    s,                 \* the local s
    t,                 \* the local t
    voPc,              \* "loop", "done"
    voFirst,           \* the value returned by the first application
    voPass,            \* 1: first application, 2: re-application to its result
    \* ---- several iterations over one worksheet text ----
    ws,                \* NotebookSageNB.ws, as the lines every parser is built on
    parsers,           \* per WorksheetParser instance: its fields pos and index
    gens,              \* per generator made by __iter__: its parser and locals
    alone              \* history: what a lone iteration of ws ends as

parserVars == <<worksheet_lines, pos, index, pc, accumulator, input, cells,
                error, openPos, origin, passStart>>
rewriteVars == <<rwInput, rwLines, res, rwPc, rwFirst, rwPass>>
outputVars == <<voOutput, s, t, voPc, voFirst, voPass>>
iterVars == <<ws, parsers, gens, alone>>
vars == <<parserVars, rewriteVars, outputVars, iterVars>>

----------------------------------------------------------------------------
(* Bounds of the model.                                                    *)

\* longest document drawn line by line from LineSet
MaxLines == 4
\* most cell blocks in a document assembled from whole cells
MaxCells == 2
\* most lines of a cell input given to ipython_input
MaxInputLines == 3
\* most fragments of a cell output given to plain_text_output
MaxFragments == 4

----------------------------------------------------------------------------
(* Strings.                                                                *)

\* Python str.isspace for the characters of the model
IsSpace(c) == c \in {" ", "\n", "\t", "\r"}

\* the characters [0-9] of CELL_FRONT
IsDigit(c) == c \in {"0", "1", "2", "3", "4", "5", "6", "7", "8", "9"}

DigitValue(c) ==
    CASE c = "0" -> 0 [] c = "1" -> 1 [] c = "2" -> 2 [] c = "3" -> 3
      [] c = "4" -> 4 [] c = "5" -> 5 [] c = "6" -> 6 [] c = "7" -> 7
      [] c = "8" -> 8 [] c = "9" -> 9

\* int(digits) for a non-empty run of decimal digits
RECURSIVE IntOf(_)
IntOf(digits) ==
    IF Len(digits) = 1 THEN DigitValue(digits[1])
    ELSE 10 * IntOf(SubSeq(digits, 1, Len(digits) - 1))
         + DigitValue(digits[Len(digits)])

\* str.startswith
StartsWith(str, prefix) ==
    /\ Len(str) >= Len(prefix)
    /\ SubSeq(str, 1, Len(prefix)) = prefix

\* str.find(sub): the 0-based offset of the first occurrence, or -1
Find(str, sub) ==
    LET hits == {i \in 0..(Len(str) - Len(sub)) :
                    SubSeq(str, i + 1, i + Len(sub)) = sub}
    IN IF hits = {} THEN -1
       ELSE CHOOSE i \in hits : \A k \in hits : i <= k

\* str.strip(): leading and trailing whitespace removed
RECURSIVE LStrip(_)
LStrip(str) ==
    IF str # <<>> /\ IsSpace(Head(str)) THEN LStrip(Tail(str)) ELSE str

RECURSIVE RStrip(_)
RStrip(str) ==
    IF str # <<>> /\ IsSpace(str[Len(str)])
    THEN RStrip(SubSeq(str, 1, Len(str) - 1)) ELSE str

Strip(str) == RStrip(LStrip(str))

\* u'\n'.join(list)
RECURSIVE Join(_)
Join(list) ==
    IF list = <<>> THEN <<>>
    ELSE IF Len(list) = 1 THEN list[1]
    ELSE list[1] \o <<"\n">> \o Join(Tail(list))

\* str.replace(old, ""): every non-overlapping occurrence, left to right
RECURSIVE Remove(_, _)
Remove(str, old) ==
    LET i == Find(str, old) IN
    IF i = -1 THEN str
    ELSE SubSeq(str, 1, i) \o Remove(SubSeq(str, i + Len(old) + 1, Len(str)), old)

\* str.splitlines(True) for text whose only line terminator is "\n"
RECURSIVE SplitLinesKeep(_)
SplitLinesKeep(str) ==
    IF str = <<>> THEN <<>>
    ELSE LET i == Find(str, <<"\n">>) IN
         IF i = -1 THEN <<str>>
         ELSE <<SubSeq(str, 1, i + 1)>>
              \o SplitLinesKeep(SubSeq(str, i + 2, Len(str)))

\* the escape sequence the model's documents carry, and what it stands for
ESC_LT == <<"&", "l", "t", ";">>

\* sagenb_export.unescape.unescape: reverses the format's escaping
RECURSIVE Unescape(_)
Unescape(str) ==
    LET i == Find(str, ESC_LT) IN
    IF i = -1 THEN str
    ELSE SubSeq(str, 1, i) \o <<"<">>
         \o Unescape(SubSeq(str, i + Len(ESC_LT) + 1, Len(str)))

----------------------------------------------------------------------------
(* The line classifier.                                                    *)

\* the literal text of CELL_FRONT before the digit group
CELL_FRONT_PREFIX == <<"{", "{", "{", "i", "d", "=">>

\* the only line CELL_MID matches
CELL_MID == <<"/", "/", "/">>

\* the only line CELL_BACK matches
CELL_BACK == <<"}", "}", "}">>

\* CELL_FRONT.match(line): ^\{\{\{id=(?P<index>[0-9]*)\|$
CELL_FRONT(line) ==
    /\ Len(line) >= Len(CELL_FRONT_PREFIX) + 1
    /\ StartsWith(line, CELL_FRONT_PREFIX)
    /\ line[Len(line)] = "|"
    /\ \A i \in (Len(CELL_FRONT_PREFIX) + 1)..(Len(line) - 1) : IsDigit(line[i])

\* match.group('index') of a line CELL_FRONT matches
IndexGroup(line) == SubSeq(line, Len(CELL_FRONT_PREFIX) + 1, Len(line) - 1)

----------------------------------------------------------------------------
(* Cells.                                                                  *)

TextCell(text) == [kind |-> "TextCell", input |-> text]

ComputeCell(i, in, out) ==
    [kind |-> "ComputeCell", index |-> i, input |-> in, output |-> out]

----------------------------------------------------------------------------
(* Documents.                                                              *)

OPEN_1 == CELL_FRONT_PREFIX \o <<"1", "|">>
OPEN_30 == CELL_FRONT_PREFIX \o <<"3", "0", "|">>
OPEN_NO_DIGITS == CELL_FRONT_PREFIX \o <<"|">>
FOO == <<"f", "o", "o">>
BAR == <<"b", "a", "r">>
BLANK == <<>>
ESCAPED == <<"a">> \o ESC_LT

\* the lines a document is drawn from; none holds a line terminator, as
\* str.splitlines() returns them
LineSet == {OPEN_1, OPEN_30, OPEN_NO_DIGITS, CELL_MID, CELL_BACK,
            FOO, BAR, BLANK, ESCAPED}

\* every document of at most MaxLines lines
FreeDocs == UNION {[1..n -> LineSet] : n \in 0..MaxLines}

\* a narrative line or none, as a sequence of lines
Optional(line) == {<<>>, <<line>>}

\* one complete cell, with or without narrative before it, input and output
CellBlocks ==
    {tx \o <<op>> \o in \o <<CELL_MID>> \o out \o <<CELL_BACK>> :
        tx \in Optional(FOO), op \in {OPEN_1, OPEN_30},
        in \in Optional(BAR), out \in Optional(ESCAPED)}

RECURSIVE Flatten(_)
Flatten(blocks) ==
    IF blocks = <<>> THEN <<>> ELSE Head(blocks) \o Flatten(Tail(blocks))

\* documents of at most MaxCells complete cells, with or without narrative
\* after the last one
CellDocs ==
    {Flatten(bs) \o tail :
        bs \in UNION {[1..n -> CellBlocks] : n \in 1..MaxCells},
        tail \in Optional(FOO)}

Documents == FreeDocs \cup CellDocs

----------------------------------------------------------------------------
(* WorksheetParser.                                                        *)

\* the derived views are not running
RewriteIdle ==
    /\ rwInput = <<>> /\ rwLines = <<>> /\ res = <<>>
    /\ rwPc = "idle" /\ rwFirst = <<>> /\ rwPass = 0

OutputIdle ==
    /\ voOutput = <<>> /\ s = <<>> /\ t = <<>>
    /\ voPc = "idle" /\ voFirst = <<>> /\ voPass = 0

\* no second iteration, no NotebookSageNB
IterIdle ==
    /\ ws = <<>> /\ parsers = <<>> /\ gens = <<>> /\ alone = <<>>

ParserIdle ==
    /\ worksheet_lines = <<>> /\ pos = 0 /\ index = -1 /\ pc = "idle"
    /\ accumulator = <<>> /\ input = <<>> /\ cells = <<>> /\ error = "none"
    /\ openPos = -1 /\ origin = <<>> /\ passStart = -1

\* the property is_finished
IsFinished == pos >= Len(worksheet_lines)

\* The property `line` read at the cursor: the line, or the IndexError of
\* worksheet_lines[pos] past the end.
LineRaises == pos >= Len(worksheet_lines)
Line == worksheet_lines[pos + 1]

\* is_cell_front with a pattern whose group holds the first digit only
IsCellFrontFirstDigit ==
    IF LineRaises
    THEN [raised |-> "IndexError", value |-> FALSE, index |-> index]
    ELSE IF ~CELL_FRONT(Line)
    THEN [raised |-> "none", value |-> FALSE, index |-> index]
    ELSE IF IndexGroup(Line) = <<>>
    THEN [raised |-> "ValueError", value |-> FALSE, index |-> index]
    ELSE [raised |-> "none", value |-> TRUE,
          index |-> DigitValue(IndexGroup(Line)[1])]

\* is_cell_front that would take a marker without digits for a cell front
\* and leave self.index as it was
IsCellFrontDefaulting ==
    IF LineRaises
    THEN [raised |-> "IndexError", value |-> FALSE, index |-> index]
    ELSE IF ~CELL_FRONT(Line)
    THEN [raised |-> "none", value |-> FALSE, index |-> index]
    ELSE IF IndexGroup(Line) = <<>>
    THEN [raised |-> "none", value |-> TRUE, index |-> index]
    ELSE [raised |-> "none", value |-> TRUE, index |-> IntOf(IndexGroup(Line))]

\* The property is_cell_front: what evaluating it raises, its value, and
\* self.index after it.
IsCellFront ==
    IF LineRaises
    THEN [raised |-> "IndexError", value |-> FALSE, index |-> index]
    ELSE IF ~CELL_FRONT(Line)
    THEN [raised |-> "none", value |-> FALSE, index |-> index]
    ELSE IF IndexGroup(Line) = <<>>
    THEN [raised |-> "ValueError", value |-> FALSE, index |-> index]
    ELSE [raised |-> "none", value |-> TRUE, index |-> IntOf(IndexGroup(Line))]

\* the properties is_cell_mid and is_cell_back
IsCellMid ==
    IF LineRaises THEN [raised |-> "IndexError", value |-> FALSE]
    ELSE [raised |-> "none", value |-> Line = CELL_MID]

IsCellBack ==
    IF LineRaises THEN [raised |-> "IndexError", value |-> FALSE]
    ELSE [raised |-> "none", value |-> Line = CELL_BACK]

\* WorksheetParser(worksheet_html), and the call of __iter__ on it
ParserInit ==
    /\ worksheet_lines \in Documents
    /\ pos = 0
    /\ index = -1
    /\ pc = "loop"
    /\ accumulator = <<>>
    /\ input = <<>>
    /\ cells = <<>>
    /\ error = "none"
    /\ openPos = -1
    /\ origin = <<>>
    /\ passStart = -1

\* an exception leaves the generator: nothing else changes
Raise(exc) ==
    /\ error' = exc
    /\ UNCHANGED <<worksheet_lines, pos, index, pc, accumulator, input, cells,
                   openPos, origin, passStart>>

\* __iter__: the test of `while not self.is_finished`
Iter ==
    /\ pc = "loop" /\ error = "none"
    /\ UNCHANGED <<rewriteVars, outputVars, iterVars>>
    /\ pc' = IF IsFinished THEN "done" ELSE "text"
    /\ accumulator' = <<>>
    /\ passStart' = IF IsFinished THEN passStart ELSE pos
    /\ UNCHANGED <<worksheet_lines, pos, index, input, cells, error,
                   openPos, origin>>

\* _try_read_text whose loop body would read self.line without moving the
\* cursor forward
TryReadTextNoForward ==
    /\ pc = "text" /\ error = "none"
    /\ UNCHANGED <<rewriteVars, outputVars, iterVars>>
    /\ LET front == IsCellFront IN
       IF front.raised # "none" THEN Raise(front.raised)
       ELSE IF front.value \/ IsFinished
       THEN LET text == Strip(Join(accumulator)) IN
            /\ index' = front.index
            /\ cells' = IF text # <<>>
                        THEN Append(cells, TextCell(Unescape(text)))
                        ELSE cells
            /\ origin' = IF text # <<>> THEN Append(origin, -1) ELSE origin
            /\ pc' = "cell"
            /\ UNCHANGED <<worksheet_lines, pos, accumulator, input, error,
                           openPos, passStart>>
       ELSE /\ accumulator' = Append(accumulator, Line)
            /\ UNCHANGED <<worksheet_lines, pos, index, pc, input, cells,
                           error, openPos, origin, passStart>>

\* _try_read_text and __iter__ that would yield the text cell without
\* testing the joined text for emptiness
TryReadTextAlways ==
    /\ pc = "text" /\ error = "none"
    /\ UNCHANGED <<rewriteVars, outputVars, iterVars>>
    /\ LET front == IsCellFront IN
       IF front.raised # "none" THEN Raise(front.raised)
       ELSE IF front.value \/ IsFinished
       THEN LET text == Strip(Join(accumulator)) IN
            /\ index' = front.index
            /\ cells' = Append(cells, TextCell(Unescape(text)))
            /\ origin' = Append(origin, -1)
            /\ pc' = "cell"
            /\ UNCHANGED <<worksheet_lines, pos, accumulator, input, error,
                           openPos, passStart>>
       ELSE /\ accumulator' = Append(accumulator, Line)
            /\ pos' = pos + 1
            /\ UNCHANGED <<worksheet_lines, index, pc, input, cells, error,
                           openPos, origin, passStart>>

\* _try_read_text: one test of its loop, then either its body or the code
\* after the loop up to the yield of the text cell
TryReadText ==
    /\ pc = "text" /\ error = "none"
    /\ UNCHANGED <<rewriteVars, outputVars, iterVars>>
    /\ LET front == IsCellFront IN
       IF front.raised # "none" THEN Raise(front.raised)
       ELSE IF front.value \/ IsFinished
       THEN LET text == Strip(Join(accumulator)) IN
            /\ index' = front.index
            /\ cells' = IF text # <<>>
                        THEN Append(cells, TextCell(Unescape(text)))
                        ELSE cells
            /\ origin' = IF text # <<>> THEN Append(origin, -1) ELSE origin
            /\ pc' = "cell"
            /\ UNCHANGED <<worksheet_lines, pos, accumulator, input, error,
                           openPos, passStart>>
       ELSE /\ accumulator' = Append(accumulator, Line)
            /\ pos' = pos + 1
            /\ UNCHANGED <<worksheet_lines, index, pc, input, cells, error,
                           openPos, origin, passStart>>

\* _read_cell_input up to its loop: assert self.is_cell_front; self.pos += 1
ReadCellInputBegin ==
    /\ pc = "cell" /\ error = "none"
    /\ UNCHANGED <<rewriteVars, outputVars, iterVars>>
    /\ LET front == IsCellFront IN
       IF front.raised # "none" THEN Raise(front.raised)
       ELSE IF ~front.value THEN Raise("AssertionError")
       ELSE /\ index' = front.index
            /\ openPos' = pos
            /\ pos' = pos + 1
            /\ accumulator' = <<>>
            /\ pc' = "input"
            /\ UNCHANGED <<worksheet_lines, input, cells, error, origin,
                           passStart>>

\* _read_cell_input whose loop would also test is_cell_front on each line
ReadCellInputClassifying ==
    /\ pc = "input" /\ error = "none"
    /\ UNCHANGED <<rewriteVars, outputVars, iterVars>>
    /\ LET mid == IsCellMid
           front == IsCellFront IN
       IF mid.raised # "none" THEN Raise(mid.raised)
       ELSE IF mid.value \/ IsFinished
       THEN /\ input' = Unescape(Strip(Join(accumulator)))
            /\ pc' = "mid"
            /\ UNCHANGED <<worksheet_lines, pos, index, accumulator, cells,
                           error, openPos, origin, passStart>>
       ELSE IF front.raised # "none" THEN Raise(front.raised)
       ELSE /\ accumulator' = Append(accumulator, Line)
            /\ pos' = pos + 1
            /\ index' = front.index
            /\ UNCHANGED <<worksheet_lines, pc, input, cells, error,
                           openPos, origin, passStart>>

\* _read_cell_input: one test of its loop, then either its body or its return
ReadCellInput ==
    /\ pc = "input" /\ error = "none"
    /\ UNCHANGED <<rewriteVars, outputVars, iterVars>>
    /\ LET mid == IsCellMid IN
       IF mid.raised # "none" THEN Raise(mid.raised)
       ELSE IF mid.value \/ IsFinished
       THEN /\ input' = Unescape(Strip(Join(accumulator)))
            /\ pc' = "mid"
            /\ UNCHANGED <<worksheet_lines, pos, index, accumulator, cells,
                           error, openPos, origin, passStart>>
       ELSE /\ accumulator' = Append(accumulator, Line)
            /\ pos' = pos + 1
            /\ UNCHANGED <<worksheet_lines, index, pc, input, cells, error,
                           openPos, origin, passStart>>

\* _read_cell_output up to its loop: assert self.is_cell_mid; self.pos += 1
ReadCellOutputBegin ==
    /\ pc = "mid" /\ error = "none"
    /\ UNCHANGED <<rewriteVars, outputVars, iterVars>>
    /\ LET mid == IsCellMid IN
       IF mid.raised # "none" THEN Raise(mid.raised)
       ELSE IF ~mid.value THEN Raise("AssertionError")
       ELSE /\ pos' = pos + 1
            /\ accumulator' = <<>>
            /\ pc' = "output"
            /\ UNCHANGED <<worksheet_lines, index, input, cells, error,
                           openPos, origin, passStart>>

\* _read_cell_output and _read_cell that would emit no cell when both the
\* input and the output are empty
ReadCellOutputSkippingEmpty ==
    /\ pc = "output" /\ error = "none"
    /\ UNCHANGED <<rewriteVars, outputVars, iterVars>>
    /\ LET back == IsCellBack
           output == Unescape(Strip(Join(accumulator)))
           empty == input = <<>> /\ output = <<>> IN
       IF back.raised # "none" THEN Raise(back.raised)
       ELSE IF back.value \/ IsFinished
       THEN IF ~(index >= 0) THEN Raise("AssertionError")
            ELSE /\ cells' = IF empty THEN cells
                             ELSE Append(cells,
                                      ComputeCell(index, input, output))
                 /\ origin' = IF empty THEN origin
                              ELSE Append(origin, openPos)
                 /\ pc' = "back"
                 /\ UNCHANGED <<worksheet_lines, pos, index, accumulator,
                                input, error, openPos, passStart>>
       ELSE /\ accumulator' = Append(accumulator, Line)
            /\ pos' = pos + 1
            /\ UNCHANGED <<worksheet_lines, index, pc, input, cells, error,
                           openPos, origin, passStart>>

\* _read_cell_output: one test of its loop, then either its body or its
\* return, the ComputeCell of _read_cell and its yield
ReadCellOutput ==
    /\ pc = "output" /\ error = "none"
    /\ UNCHANGED <<rewriteVars, outputVars, iterVars>>
    /\ LET back == IsCellBack IN
       IF back.raised # "none" THEN Raise(back.raised)
       ELSE IF back.value \/ IsFinished
       THEN IF ~(index >= 0) THEN Raise("AssertionError")
            ELSE /\ cells' = Append(cells,
                        ComputeCell(index, input,
                                    Unescape(Strip(Join(accumulator)))))
                 /\ origin' = Append(origin, openPos)
                 /\ pc' = "back"
                 /\ UNCHANGED <<worksheet_lines, pos, index, accumulator,
                                input, error, openPos, passStart>>
       ELSE /\ accumulator' = Append(accumulator, Line)
            /\ pos' = pos + 1
            /\ UNCHANGED <<worksheet_lines, index, pc, input, cells, error,
                           openPos, origin, passStart>>

\* __iter__ after the yield of the compute cell:
\* if not self.is_finished: assert self.is_cell_back; self.pos += 1
ConsumeBack ==
    /\ pc = "back" /\ error = "none"
    /\ UNCHANGED <<rewriteVars, outputVars, iterVars>>
    /\ IF IsFinished
       THEN /\ pc' = "loop"
            /\ UNCHANGED <<worksheet_lines, pos, index, accumulator, input,
                           cells, error, openPos, origin, passStart>>
       ELSE IF ~IsCellBack.value THEN Raise("AssertionError")
       ELSE /\ pos' = pos + 1
            /\ pc' = "loop"
            /\ UNCHANGED <<worksheet_lines, index, accumulator, input, cells,
                           error, openPos, origin, passStart>>

\* the iteration is over: exhausted, or ended by an exception
Terminated == pc = "done" \/ error # "none"

Init == ParserInit /\ RewriteIdle /\ OutputIdle /\ IterIdle

Next ==
    \/ Iter
    \/ TryReadText
    \/ ReadCellInputBegin
    \/ ReadCellInput
    \/ ReadCellOutputBegin
    \/ ReadCellOutput
    \/ ConsumeBack

Spec == Init /\ [][Next]_vars

----------------------------------------------------------------------------
(* ComputeCell.ipython_input.                                              *)

PERCENT == <<"%">>
MAGIC_AUTO == <<"%", "a", "u", "t", "o">>
MAGIC_HIDE == <<"%", "h", "i", "d", "e">>
MAGIC_HIDEALL == <<"%", "h", "i", "d", "e", "a", "l", "l">>
MAGIC_SAVE_SERVER ==
    <<"%", "s", "a", "v", "e", "_", "s", "e", "r", "v", "e", "r">>
MAGIC_TIME == <<"%", "t", "i", "m", "e">>
CODE_LINE == <<"x", "=", "1">>

\* the magics ipython_input removes
NoOpMagics == {MAGIC_AUTO, MAGIC_HIDE, MAGIC_HIDEALL, MAGIC_SAVE_SERVER}

\* the lines (without terminator) a cell input is drawn from
InputLineSet == {MAGIC_AUTO, MAGIC_HIDE, MAGIC_HIDEALL, MAGIC_SAVE_SERVER,
                 MAGIC_TIME, MAGIC_TIME \o <<" ">>, MAGIC_AUTO \o <<" ">>,
                 CODE_LINE, <<>>}

\* the cell inputs: at most MaxInputLines lines joined by "\n", with or
\* without a final "\n"
RewriteInputs ==
    {Join(ls) \o end :
        ls \in UNION {[1..n -> InputLineSet] : n \in 0..MaxInputLines},
        end \in {<<>>, <<"\n">>}}

\* the body of the first loop for a line that starts with %, forgetting to
\* remove the magics that mean nothing to IPython
ConvertMagicKeepAll(line) == PERCENT \o Strip(line) \o <<"\n">>

\* the body of the first loop for a line that starts with %: what is added
\* to res
ConvertMagic(line) ==
    LET stripped == Strip(line) IN
    IF stripped \in NoOpMagics THEN <<>>
    ELSE PERCENT \o stripped \o <<"\n">>

\* cell.ipython_input() is called
RewriteInit ==
    /\ rwInput \in RewriteInputs
    /\ rwLines = SplitLinesKeep(rwInput)
    /\ res = <<>>
    /\ rwPc = "scan"
    /\ rwFirst = <<>>
    /\ rwPass = 1

\* the first loop: one line taken from the iterator, or its end
ScanLine ==
    /\ rwPc = "scan"
    /\ UNCHANGED <<parserVars, outputVars, iterVars>>
    /\ UNCHANGED <<rwInput, rwFirst, rwPass>>
    /\ IF rwLines = <<>>
       THEN rwPc' = "copy" /\ UNCHANGED <<rwLines, res>>
       ELSE /\ rwLines' = Tail(rwLines)
            /\ IF ~StartsWith(Head(rwLines), PERCENT)
               THEN res' = res \o Head(rwLines) /\ rwPc' = "copy"
               ELSE res' = res \o ConvertMagic(Head(rwLines)) /\ rwPc' = "scan"

\* the second loop: one line taken from the iterator
CopyLine ==
    /\ rwPc = "copy"
    /\ rwLines # <<>>
    /\ UNCHANGED <<parserVars, outputVars, iterVars>>
    /\ res' = res \o Head(rwLines)
    /\ rwLines' = Tail(rwLines)
    /\ UNCHANGED <<rwInput, rwPc, rwFirst, rwPass>>

\* the end of the second loop: return res
RewriteReturn ==
    /\ rwPc = "copy"
    /\ rwLines = <<>>
    /\ UNCHANGED <<parserVars, outputVars, iterVars>>
    /\ rwPc' = "done"
    /\ rwFirst' = IF rwPass = 1 THEN res ELSE rwFirst
    /\ UNCHANGED <<rwInput, rwLines, res, rwPass>>

\* ipython_input() of a cell whose input is the value just returned
RewriteAgain ==
    /\ rwPc = "done"
    /\ rwPass = 1
    /\ UNCHANGED <<parserVars, outputVars, iterVars>>
    /\ rwInput' = res
    /\ rwLines' = SplitLinesKeep(res)
    /\ res' = <<>>
    /\ rwPc' = "scan"
    /\ rwPass' = 2
    /\ UNCHANGED rwFirst

InitRewrite == ParserIdle /\ RewriteInit /\ OutputIdle /\ IterIdle

NextRewrite == ScanLine \/ CopyLine \/ RewriteReturn \/ RewriteAgain

SpecRewrite == InitRewrite /\ [][NextRewrite]_vars

----------------------------------------------------------------------------
(* ComputeCell.plain_text_output.                                          *)

OPEN_TAG == <<"<", "h", "t", "m", "l", ">">>
CLOSE_TAG == <<"<", "/", "h", "t", "m", "l", ">">>

\* the pieces a cell output is assembled from: the two tags, plain text,
\* and pieces of tags that meet when what stood between them is removed
FragmentSet == {OPEN_TAG, CLOSE_TAG, <<"a">>, <<"b">>,
                <<"<", "h", "t">>, <<"<", "/", "h", "t">>, <<"m", "l", ">">>}

OutputTexts ==
    {Flatten(fs) : fs \in UNION {[1..n -> FragmentSet] : n \in 0..MaxFragments}}

\* s[a:] of Python for 0 <= a
From(str, a) == SubSeq(str, a + 1, Len(str))

\* s[:b] of Python for 0 <= b
Upto(str, b) == SubSeq(str, 1, b)

\* cell.plain_text_output() is called
OutputInit ==
    /\ voOutput \in OutputTexts
    /\ s = voOutput
    /\ t = <<>>
    /\ voPc = "loop"
    /\ voFirst = <<>>
    /\ voPass = 1

\* the loop with s = s[j:] for s = s[j + 7:]: the closing tag stays in s
RemoveBlockKeepingTag ==
    /\ voPc = "loop"
    /\ UNCHANGED <<parserVars, rewriteVars, iterVars>>
    /\ UNCHANGED <<voOutput, voFirst, voPass>>
    /\ LET i == Find(s, OPEN_TAG)
           j == Find(s, CLOSE_TAG)
       IN IF ~(Len(s) > 0) THEN voPc' = "strip" /\ UNCHANGED <<s, t>>
          ELSE IF i = -1 THEN t' = t \o s /\ voPc' = "strip" /\ UNCHANGED s
          ELSE IF j = -1
          THEN t' = t \o Upto(s, i) /\ voPc' = "strip" /\ UNCHANGED s
          ELSE /\ t' = t \o Upto(s, i)
               /\ s' = From(s, j)
               /\ UNCHANGED voPc

\* one test of `while len(s) > 0` and, if it holds, one pass of the body
RemoveBlock ==
    /\ voPc = "loop"
    /\ UNCHANGED <<parserVars, rewriteVars, iterVars>>
    /\ UNCHANGED <<voOutput, voFirst, voPass>>
    /\ LET i == Find(s, OPEN_TAG)
           j == Find(s, CLOSE_TAG)
       IN IF ~(Len(s) > 0) THEN voPc' = "strip" /\ UNCHANGED <<s, t>>
          ELSE IF i = -1 THEN t' = t \o s /\ voPc' = "strip" /\ UNCHANGED s
          ELSE IF j = -1 THEN t' = t \o Upto(s, i) /\ voPc' = "strip" /\ UNCHANGED s
          ELSE /\ t' = t \o Upto(s, i)
               /\ s' = From(s, j + Len(CLOSE_TAG))
               /\ UNCHANGED voPc

\* t = t.replace('</html>', ''); return t
StripClosing ==
    /\ voPc = "strip"
    /\ UNCHANGED <<parserVars, rewriteVars, iterVars>>
    /\ t' = Remove(t, CLOSE_TAG)
    /\ voPc' = "done"
    /\ voFirst' = IF voPass = 1 THEN t' ELSE voFirst
    /\ UNCHANGED <<voOutput, s, voPass>>

\* plain_text_output() of a cell whose output is the value just returned
OutputAgain ==
    /\ voPc = "done"
    /\ voPass = 1
    /\ UNCHANGED <<parserVars, rewriteVars, iterVars>>
    /\ voOutput' = t
    /\ s' = t
    /\ t' = <<>>
    /\ voPc' = "loop"
    /\ voPass' = 2
    /\ UNCHANGED voFirst

InitOutput == ParserIdle /\ RewriteIdle /\ OutputInit /\ IterIdle

NextOutput == RemoveBlock \/ StripClosing \/ OutputAgain

SpecOutput == InitOutput /\ [][NextOutput]_vars

----------------------------------------------------------------------------
(* Several iterations over one worksheet text.                             *)
(*                                                                         *)
(* A WorksheetParser keeps its cursor in its own fields pos and index;     *)
(* a generator made by __iter__ keeps only the locals of the helper it     *)
(* stands in.  Generators of one thread interleave at their yields only:   *)
(* the caller resumes one with next(), it runs to its next yield or to its *)
(* end, and the caller may then resume another, or drop one.               *)

\* most generators made over one worksheet text
MaxIterations == 2
\* longest worksheet drawn line by line from IterLineSet
MaxIterLines == 4

IterLineSet == {OPEN_1, CELL_MID, CELL_BACK, FOO}

\* a worksheet of two cells with narrative before, between and after them
TWO_CELLS ==
    <<FOO, OPEN_1, BAR, CELL_MID, ESCAPED, CELL_BACK,
      FOO, OPEN_30, CELL_MID, CELL_BACK, BAR>>

\* every worksheet of at most MaxIterLines lines of IterLineSet, and TWO_CELLS
IterDocs ==
    UNION {[1..n -> IterLineSet] : n \in 0..MaxIterLines} \cup {TWO_CELLS}

\* WorksheetParser.__init__
NewParser == [pos |-> 0, index |-> -1]

\* the generator object made by a call of __iter__ on parser p; none of the
\* body has run yet
NewGenerator(p, via) ==
    [self |-> p, via |-> via, pc |-> "loop", accumulator |-> <<>>,
     input |-> <<>>, cells |-> <<>>, error |-> "none",
     started |-> FALSE, startPos |-> -1, closed |-> FALSE]

\* is_cell_front, is_cell_mid and is_cell_back of the parser object p
FrontAt(lines, p) ==
    IF p.pos >= Len(lines)
    THEN [raised |-> "IndexError", value |-> FALSE, index |-> p.index]
    ELSE IF ~CELL_FRONT(lines[p.pos + 1])
    THEN [raised |-> "none", value |-> FALSE, index |-> p.index]
    ELSE IF IndexGroup(lines[p.pos + 1]) = <<>>
    THEN [raised |-> "ValueError", value |-> FALSE, index |-> p.index]
    ELSE [raised |-> "none", value |-> TRUE,
          index |-> IntOf(IndexGroup(lines[p.pos + 1]))]

MidAt(lines, p) ==
    IF p.pos >= Len(lines) THEN [raised |-> "IndexError", value |-> FALSE]
    ELSE [raised |-> "none", value |-> lines[p.pos + 1] = CELL_MID]

BackAt(lines, p) ==
    IF p.pos >= Len(lines) THEN [raised |-> "IndexError", value |-> FALSE]
    ELSE [raised |-> "none", value |-> lines[p.pos + 1] = CELL_BACK]

\* One step of the generator g on the parser object p: the parser and the
\* generator after it, and whether the step ends in a yield.
GenStep(lines, p, g) ==
    LET finished == p.pos >= Len(lines)
        line == lines[p.pos + 1]
        Raised(exc) ==
            [p |-> p, g |-> [g EXCEPT !.error = exc], yielded |-> FALSE]
        Forward ==
            [p |-> [p EXCEPT !.pos = p.pos + 1],
             g |-> [g EXCEPT !.accumulator = Append(g.accumulator, line)],
             yielded |-> FALSE]
        joined == Strip(Join(g.accumulator))
        front == FrontAt(lines, p)
        mid == MidAt(lines, p)
        back == BackAt(lines, p)
    IN  CASE g.pc = "loop" ->
                [p |-> p,
                 g |-> [g EXCEPT !.pc = IF finished THEN "done" ELSE "text",
                                 !.accumulator = <<>>],
                 yielded |-> FALSE]
          [] g.pc = "text" ->
                IF front.raised # "none" THEN Raised(front.raised)
                ELSE IF front.value \/ finished
                THEN [p |-> [p EXCEPT !.index = front.index],
                      g |-> [g EXCEPT
                                !.pc = "cell",
                                !.cells = IF joined # <<>>
                                          THEN Append(g.cells,
                                                   TextCell(Unescape(joined)))
                                          ELSE g.cells],
                      yielded |-> joined # <<>>]
                ELSE Forward
          [] g.pc = "cell" ->
                IF front.raised # "none" THEN Raised(front.raised)
                ELSE IF ~front.value THEN Raised("AssertionError")
                ELSE [p |-> [pos |-> p.pos + 1, index |-> front.index],
                      g |-> [g EXCEPT !.pc = "input", !.accumulator = <<>>],
                      yielded |-> FALSE]
          [] g.pc = "input" ->
                IF mid.raised # "none" THEN Raised(mid.raised)
                ELSE IF mid.value \/ finished
                THEN [p |-> p,
                      g |-> [g EXCEPT !.pc = "mid",
                                      !.input = Unescape(joined)],
                      yielded |-> FALSE]
                ELSE Forward
          [] g.pc = "mid" ->
                IF mid.raised # "none" THEN Raised(mid.raised)
                ELSE IF ~mid.value THEN Raised("AssertionError")
                ELSE [p |-> [p EXCEPT !.pos = p.pos + 1],
                      g |-> [g EXCEPT !.pc = "output", !.accumulator = <<>>],
                      yielded |-> FALSE]
          [] g.pc = "output" ->
                IF back.raised # "none" THEN Raised(back.raised)
                ELSE IF back.value \/ finished
                THEN IF ~(p.index >= 0) THEN Raised("AssertionError")
                     ELSE [p |-> p,
                           g |-> [g EXCEPT
                                     !.pc = "back",
                                     !.cells = Append(g.cells,
                                         ComputeCell(p.index, g.input,
                                                     Unescape(joined)))],
                           yielded |-> TRUE]
                ELSE Forward
          [] g.pc = "back" ->
                IF finished
                THEN [p |-> p, g |-> [g EXCEPT !.pc = "loop"],
                      yielded |-> FALSE]
                ELSE IF ~back.value THEN Raised("AssertionError")
                ELSE [p |-> [p EXCEPT !.pos = p.pos + 1],
                      g |-> [g EXCEPT !.pc = "loop"], yielded |-> FALSE]

\* the generator is over: exhausted, ended by an exception, or closed
GenTerminated(g) == g.pc = "done" \/ g.error # "none"
GenOver(g) == GenTerminated(g) \/ g.closed

\* the generator a lone iteration of a new parser over the lines ends as
RECURSIVE RunFrom(_, _, _)
RunFrom(lines, p, g) ==
    IF GenTerminated(g) THEN g
    ELSE LET r == GenStep(lines, p, g) IN RunFrom(lines, r.p, r.g)

RunAlone(lines) == RunFrom(lines, NewParser, NewGenerator(0, "iter"))

IterInit ==
    /\ ws \in IterDocs
    /\ parsers = <<NewParser>>
    /\ gens = <<>>
    /\ alone = RunAlone(ws)

\* NotebookSageNB.cells with one parser kept and reused by every access
CellsAccessCached ==
    /\ parsers' = parsers
    /\ gens' = Append(gens, NewGenerator(1, "cells"))

\* NotebookSageNB.cells: each access iterates a WorksheetParser of its own
CellsAccess ==
    /\ parsers' = Append(parsers, NewParser)
    /\ gens' = Append(gens, NewGenerator(Len(parsers) + 1, "cells"))

\* an access of notebook.cells
AccessCells ==
    /\ Len(gens) < MaxIterations
    /\ CellsAccess
    /\ UNCHANGED <<ws, alone>>
    /\ UNCHANGED <<parserVars, rewriteVars, outputVars>>

\* __iter__ that would start by rewinding the parser it is called on
IterRewinding ==
    /\ parsers' = [parsers EXCEPT ![1] = NewParser]
    /\ gens' = Append(gens, NewGenerator(1, "iter"))

\* __iter__ called on the parser the caller constructed: a generator is
\* made, and no field of the parser is touched
IterOfParser ==
    /\ parsers' = parsers
    /\ gens' = Append(gens, NewGenerator(1, "iter"))

\* iter(parser)
IterCall ==
    /\ Len(gens) < MaxIterations
    /\ IterOfParser
    /\ UNCHANGED <<ws, alone>>
    /\ UNCHANGED <<parserVars, rewriteVars, outputVars>>

\* the steps of the generator g up to its next yield, its end or an exception
RECURSIVE RunToYield(_, _, _)
RunToYield(lines, p, g) ==
    LET r == GenStep(lines, p, g) IN
    IF r.yielded \/ GenTerminated(r.g) THEN r
    ELSE RunToYield(lines, r.p, r.g)

\* next(generator) on a generator that is not over: it runs to its next
\* yield, to its end or to an exception, and control is back with the caller
NextCell(g) ==
    /\ ~GenOver(gens[g])
    /\ LET self == gens[g].self
           resumed == [gens[g] EXCEPT
                         !.started = TRUE,
                         !.startPos = IF gens[g].started
                                      THEN gens[g].startPos
                                      ELSE parsers[self].pos]
           r == RunToYield(ws, parsers[self], resumed) IN
       /\ parsers' = [parsers EXCEPT ![self] = r.p]
       /\ gens' = [gens EXCEPT ![g] = r.g]
    /\ UNCHANGED <<ws, alone>>
    /\ UNCHANGED <<parserVars, rewriteVars, outputVars>>

\* the caller drops a generator part-way: generator.close()
Abandon(g) ==
    /\ gens[g].started
    /\ ~GenOver(gens[g])
    /\ gens' = [gens EXCEPT ![g].closed = TRUE]
    /\ UNCHANGED <<ws, parsers, alone>>
    /\ UNCHANGED <<parserVars, rewriteVars, outputVars>>

InitIter == ParserIdle /\ RewriteIdle /\ OutputIdle /\ IterInit

NextIter ==
    \/ AccessCells
    \/ IterCall
    \/ \E g \in 1..Len(gens) : NextCell(g)
    \/ \E g \in 1..Len(gens) : Abandon(g)

SpecIter == InitIter /\ [][NextIter]_vars

----------------------------------------------------------------------------
(* What spec.md documents of the parse, for the statements below.          *)

\* section 4.1, is_cell_open: {{{id= then one or more digits then |
DocumentedCellOpen(line) ==
    LET n == Len(line) - Len(CELL_FRONT_PREFIX) - 1 IN
    /\ n >= 1
    /\ SubSeq(line, 1, Len(CELL_FRONT_PREFIX)) = CELL_FRONT_PREFIX
    /\ \A k \in 1..n :
          line[Len(CELL_FRONT_PREFIX) + k]
              \in {"0", "1", "2", "3", "4", "5", "6", "7", "8", "9"}
    /\ line[Len(line)] = "|"

\* Section 4.2: the state machine OUTSIDE / IN_INPUT / IN_OUTPUT run over
\* doc from line p, where the end of the document closes what is open. Gives
\* the cells, the mode in which the lines ran out and the buffer at that time.
RECURSIVE DocumentedParse(_, _, _, _, _, _, _)
DocumentedParse(doc, p, mode, idx, buf, inp, out) ==
    LET text == Strip(Join(buf))
        withText == IF text # <<>> THEN Append(out, TextCell(Unescape(text)))
                    ELSE out
    IN
    IF p > Len(doc)
    THEN [mode |-> mode, buf |-> buf,
          cells |-> CASE mode = "OUTSIDE" -> withText
                      [] mode = "IN_INPUT" ->
                          Append(out, ComputeCell(idx, Unescape(text), <<>>))
                      [] mode = "IN_OUTPUT" ->
                          Append(out, ComputeCell(idx, inp, Unescape(text)))]
    ELSE CASE mode = "OUTSIDE" ->
                IF DocumentedCellOpen(doc[p])
                THEN DocumentedParse(doc, p + 1, "IN_INPUT",
                                     IntOf(IndexGroup(doc[p])), <<>>, <<>>, withText)
                ELSE DocumentedParse(doc, p + 1, mode, idx,
                                     Append(buf, doc[p]), inp, out)
           [] mode = "IN_INPUT" ->
                IF doc[p] = CELL_MID
                THEN DocumentedParse(doc, p + 1, "IN_OUTPUT", idx, <<>>,
                                     Unescape(text), out)
                ELSE DocumentedParse(doc, p + 1, mode, idx,
                                     Append(buf, doc[p]), inp, out)
           [] mode = "IN_OUTPUT" ->
                IF doc[p] = CELL_BACK
                THEN DocumentedParse(doc, p + 1, "OUTSIDE", idx, <<>>, <<>>,
                                     Append(out, ComputeCell(idx, inp, Unescape(text))))
                ELSE DocumentedParse(doc, p + 1, mode, idx,
                                     Append(buf, doc[p]), inp, out)

Documented == DocumentedParse(worksheet_lines, 1, "OUTSIDE", -1, <<>>, <<>>, <<>>)

\* no line of the document is {{{id=| with an empty digit run
NoEmptyDigitRun == \A i \in 1..Len(worksheet_lines) : worksheet_lines[i] # OPEN_NO_DIGITS

IsComputeCell(cell) == cell.kind = "ComputeCell"
IsTextCell(cell) == cell.kind = "TextCell"

Last(seq) == seq[Len(seq)]

----------------------------------------------------------------------------
(* Claims about the parse, under Spec.                                     *)

\* C1: when the lines run out inside a cell (in IN_INPUT, no mid marker, or
\* in IN_OUTPUT, no close marker), the iteration ends without a failure and
\* its last cell is the ComputeCell of the open marker's index with the
\* input and output accumulated so far. Stated for documents without an
\* empty digit run, which C5 is about.
C1_TruncatedCellEmitted ==
    (Terminated /\ NoEmptyDigitRun /\ Documented.mode \in {"IN_INPUT", "IN_OUTPUT"})
        => /\ error = "none"
           /\ cells # <<>>
           /\ Last(cells) = Last(Documented.cells)

\* C2: when the lines run out in OUTSIDE, the iteration ends normally, the
\* narrative run that was being read gives a TextCell if it is non-empty
\* after joining and trimming and no cell otherwise, never a ComputeCell.
C2_TrailingNarrativeEmitted ==
    (Terminated /\ NoEmptyDigitRun /\ Documented.mode = "OUTSIDE")
        => LET run == Strip(Join(Documented.buf)) IN
           /\ error = "none"
           /\ pc = "done"
           /\ Len(cells) = Len(Documented.cells)
           /\ run # <<>> => (cells # <<>> /\ Last(cells) = TextCell(Unescape(run)))
           /\ (run = <<>> /\ cells # <<>>) => IsComputeCell(Last(cells))

\* C3: for a well-formed document (every open marker has its mid and close
\* marker) the cells are the segments of the document: each narrative run a
\* TextCell, each cell's input and output lines its ComputeCell, in order,
\* nothing lost and nothing twice.
C3_CellsReconstructDocument ==
    (Terminated /\ NoEmptyDigitRun /\ Documented.mode = "OUTSIDE")
        => cells = Documented.cells

ComputeIndices(seq) ==
    LET cs == SelectSeq(seq, IsComputeCell) IN [i \in 1..Len(cs) |-> cs[i].index]

\* C4: cells come in the order of their markers, one ComputeCell per open
\* marker met in OUTSIDE, never two TextCells in a row, and a TextCell that
\* precedes an open marker is directly followed by that marker's ComputeCell.
C4_OneComputeCellPerOpenMarker ==
    (Terminated /\ NoEmptyDigitRun)
        => /\ ComputeIndices(cells) = ComputeIndices(Documented.cells)
           /\ \A i \in 1..(Len(cells) - 1) :
                 IsTextCell(cells[i]) => IsComputeCell(cells[i + 1])
           /\ \A i \in 1..Len(cells) :
                 (IsTextCell(cells[i]) /\ i < Len(Documented.cells))
                     => (i < Len(cells) /\ IsComputeCell(cells[i + 1]))

\* C5: the open-marker test matches exactly {{{id=, one or more digits, |;
\* any other line, {{{id=| included, is content: reading it raises nothing.
C5_EmptyDigitRunIsContent ==
    /\ error # "ValueError"
    /\ (pc = "text" /\ error = "none" /\ ~LineRaises)
          => IsCellFront.value = DocumentedCellOpen(Line)

\* C10: every emitted ComputeCell has an index >= 0 that is the value of the
\* digit run of the open marker that opened it; -1 never reaches a cell.
C10_IndexIsMarkerDigits ==
    /\ Len(origin) = Len(cells)
    /\ \A i \in 1..Len(cells) :
          IsComputeCell(cells[i])
              => /\ cells[i].index >= 0
                 /\ origin[i] \in 0..(Len(worksheet_lines) - 1)
                 /\ DocumentedCellOpen(worksheet_lines[origin[i] + 1])
                 /\ cells[i].index = IntOf(IndexGroup(worksheet_lines[origin[i] + 1]))

\* C10 witness: two ComputeCells were emitted, the later with the smaller index
C10_Witness ==
    \E i, j \in 1..Len(cells) :
        /\ i < j /\ IsComputeCell(cells[i]) /\ IsComputeCell(cells[j])
        /\ cells[i].index > cells[j].index
        /\ cells[j].index >= 0

----------------------------------------------------------------------------
(* Claims about ipython_input, under SpecRewrite.                          *)

\* a line of splitlines(True) without its "\n"
WithoutTerminator(line) ==
    IF line # <<>> /\ Last(line) = "\n" THEN SubSeq(line, 1, Len(line) - 1)
    ELSE line

\* The rewrite as documented, over the lines of the input: each leading
\* %-line is dropped if it is a no-op magic and otherwise kept with one more
\* % and a newline; from the first other line on, everything is copied. The
\* text of a %-line is the line trimmed (trim) or the line less its
\* terminator (not trim).
RECURSIVE DocumentedRewrite(_, _)
DocumentedRewrite(lines, trim) ==
    IF lines = <<>> THEN <<>>
    ELSE IF ~StartsWith(Head(lines), PERCENT) THEN Flatten(lines)
    ELSE LET text == IF trim THEN Strip(Head(lines))
                     ELSE WithoutTerminator(Head(lines))
         IN (IF text \in {MAGIC_AUTO, MAGIC_HIDE, MAGIC_HIDEALL, MAGIC_SAVE_SERVER}
             THEN <<>> ELSE PERCENT \o text \o <<"\n">>)
            \o DocumentedRewrite(Tail(lines), trim)

\* C6 as stated: a leading %-line that is one of the four no-op magics is
\* dropped, every other leading %-line is kept as it is with one more % and
\* a newline, and from the first line without % on all is copied unchanged.
C6_RewriteKeepsLineText ==
    rwPc = "done" => res = DocumentedRewrite(SplitLinesKeep(rwInput), FALSE)

\* C6 as amended: the same with every leading %-line first trimmed of its
\* surrounding whitespace: it is dropped if what is left is a no-op magic,
\* and otherwise what is left is kept with one more % and a newline.
C6_RewriteTrimsLineText ==
    rwPc = "done" => res = DocumentedRewrite(SplitLinesKeep(rwInput), TRUE)

\* C6 witness: %auto, %time, x=1 was rewritten to %%time, x=1
C6_Witness ==
    /\ rwPc = "done" /\ rwPass = 1
    /\ rwInput = Join(<<MAGIC_AUTO, MAGIC_TIME, CODE_LINE>>)
    /\ res = Join(<<PERCENT \o MAGIC_TIME, CODE_LINE>>)

\* the lines of str before the first line that does not start with %
RECURSIVE LeadingMagicLines(_)
LeadingMagicLines(lines) ==
    IF lines = <<>> \/ ~StartsWith(Head(lines), PERCENT) THEN <<>>
    ELSE <<Head(lines)>> \o LeadingMagicLines(Tail(lines))

\* C7: rewriting the result of a rewrite leaves its leading magic lines as
\* they were.
C7_RewriteIdempotentOnMagics ==
    (rwPc = "done" /\ rwPass = 2)
        => LeadingMagicLines(SplitLinesKeep(res))
               = LeadingMagicLines(SplitLinesKeep(rwFirst))

----------------------------------------------------------------------------
(* Claims about plain_text_output, under SpecOutput.                       *)

\* the offset of the first occurrence of sub in str at or after start, or -1
FindFrom(str, sub, start) ==
    LET k == Find(From(str, start), sub) IN IF k = -1 THEN -1 ELSE start + k

\* The removal pass as documented: text before an opening tag is kept, the
\* span from the opening tag through the next closing tag after it is
\* dropped, an opening tag without a closing tag drops the rest.
RECURSIVE DocumentedRemoval(_)
DocumentedRemoval(str) ==
    LET i == Find(str, OPEN_TAG) IN
    IF i = -1 THEN str
    ELSE LET j == FindFrom(str, CLOSE_TAG, i + Len(OPEN_TAG)) IN
         IF j = -1 THEN Upto(str, i)
         ELSE Upto(str, i) \o DocumentedRemoval(From(str, j + Len(CLOSE_TAG)))

\* C8: the value returned is the output without its raw regions and without
\* orphan closing tags, everything else kept once and in order, wherever
\* the closing tags stand.
C8_VisibleKeepsTextOnce ==
    (voPc = "done" /\ voPass = 1)
        => t = Remove(DocumentedRemoval(voOutput), CLOSE_TAG)

\* C9: the value returned holds no closing tag (so no opening tag followed
\* by a closing tag either), and applying plain_text_output to it returns it
\* unchanged.
C9_VisibleIdempotent ==
    (voPc = "done" /\ voPass = 2)
        => /\ Find(voFirst, CLOSE_TAG) = -1
           /\ t = voFirst

----------------------------------------------------------------------------
(* Iterations side by side (SpecIter).                                     *)

IsPrefix(a, b) == Len(a) <= Len(b) /\ SubSeq(b, 1, Len(a)) = a

\* generator g has emitted what a lone iteration of the text emits: a prefix
\* of it so far, and all of it, ending the same way, once it is over
AsAlone(g) ==
    /\ IsPrefix(gens[g].cells, alone.cells)
    /\ GenTerminated(gens[g])
          => /\ gens[g].cells = alone.cells
             /\ gens[g].error = alone.error

\* no other generator was made on the parser of generator g
Exclusive(g) ==
    \A h \in 1..Len(gens) : h # g => gens[h].self # gens[g].self

\* C11, as claimed: every call of __iter__, however its steps interleave
\* with those of another iteration or with one dropped part-way, emits the
\* cells it emits when run alone.
C11_EveryIterationAsAlone ==
    \A g \in 1..Len(gens) : AsAlone(g)

\* C11, as the code has it: the cursor belongs to the WorksheetParser
\* instance.  An iteration whose parser no other iteration uses, and every
\* iteration behind an access to NotebookSageNB.cells, emits the cells it
\* emits when run alone, whatever the other iterations do and wherever they
\* are dropped.
C11_IterationsOfOwnParserAsAlone ==
    \A g \in 1..Len(gens) :
        (Exclusive(g) \/ gens[g].via = "cells") => AsAlone(g)

\* two accesses to cells: one iteration was dropped after it had emitted,
\* the other ran to its end and emitted a text cell and a compute cell
C11_Witness ==
    \E g, h \in 1..Len(gens) :
        /\ g # h
        /\ gens[g].via = "cells" /\ gens[h].via = "cells"
        /\ gens[g].closed /\ gens[g].cells # <<>>
        /\ gens[h].pc = "done" /\ Len(gens[h].cells) >= 2

\* no step of generator g, from where it stands with parser p up to its
\* next yield, its end or an exception, moves the cursor backwards
RECURSIVE StepsForward(_, _, _)
StepsForward(lines, p, g) ==
    LET r == GenStep(lines, p, g) IN
    /\ r.p.pos >= p.pos
    /\ r.yielded \/ GenTerminated(r.g) \/ StepsForward(lines, r.p, r.g)

\* C12: the parse is forward-only and not restartable.  No call and no step
\* of a generator moves the cursor of a parser backwards; an iteration begun
\* on a parser whose cursor
\* is at the end of the lines emits no cell and ends without failure; and
\* the iterations of two parsers of their own over the same text emit the
\* same cells and end the same way.
C12_ForwardOnlyNotRestartable ==
    /\ [][\A p \in 1..Len(parsers) : parsers'[p].pos >= parsers[p].pos]_vars
    /\ [](\A g \in 1..Len(gens) :
             ~GenOver(gens[g])
                 => StepsForward(ws, parsers[gens[g].self], gens[g]))
    /\ [](\A g \in 1..Len(gens) :
             (gens[g].started /\ gens[g].startPos >= Len(ws))
                 => /\ gens[g].cells = <<>>
                    /\ gens[g].error = "none")
    /\ [](\A g, h \in 1..Len(gens) :
             (/\ Exclusive(g) /\ Exclusive(h)
              /\ GenTerminated(gens[g]) /\ GenTerminated(gens[h]))
                 => /\ gens[g].cells = gens[h].cells
                    /\ gens[g].error = gens[h].error)

\* an iteration ran a parser to the end of its lines and emitted cells; a
\* second iteration of the same parser, begun afterwards, ended with none
C12_Witness ==
    \E g, h \in 1..Len(gens) :
        /\ g # h /\ gens[g].self = gens[h].self
        /\ gens[h].pc = "done" /\ gens[h].cells # <<>>
        /\ gens[g].started /\ gens[g].startPos = Len(ws)
        /\ gens[g].pc = "done" /\ gens[g].cells = <<>>

----------------------------------------------------------------------------
(* One iteration, step by step (Spec).                                     *)

\* the line under the cursor matches CELL_FRONT and its digit run is not
\* the text of an integer
MalformedOpenAtCursor ==
    /\ ~LineRaises
    /\ CELL_FRONT(Line)
    /\ IndexGroup(Line) = <<>>

\* C13: a cell-open marker whose digits do not parse ends the iteration with
\* ValueError, which no other failure of the parser is; the step that fails
\* leaves the emitted cells and the index as they were; and no compute cell
\* comes from such a marker.
C13_MalformedOpenAborts ==
    /\ [][(pc = "text" /\ error = "none" /\ MalformedOpenAtCursor)
            => /\ error' = "ValueError"
               /\ cells' = cells
               /\ index' = index]_vars
    /\ [](error = "ValueError" => pc = "text" /\ MalformedOpenAtCursor)
    /\ [](error \in {"IndexError", "AssertionError"}
             => ~(pc = "text" /\ MalformedOpenAtCursor))
    /\ [](\A i \in 1..Len(cells) :
             IsComputeCell(cells[i])
                 => /\ origin[i] \in 0..(Len(worksheet_lines) - 1)
                    /\ IndexGroup(worksheet_lines[origin[i] + 1]) # <<>>
                    /\ cells[i].index # -1)

\* a compute cell was emitted, and then a marker without digits ended the
\* iteration
C13_Witness ==
    /\ error = "ValueError"
    /\ MalformedOpenAtCursor
    /\ \E i \in 1..Len(cells) : IsComputeCell(cells[i])

\* the step reads the line under the cursor as content of the run it is in
ReadAsContent ==
    /\ accumulator' = Append(accumulator, Line)
    /\ pos' = pos + 1
    /\ pc' = pc
    /\ index' = index
    /\ cells' = cells
    /\ error' = "none"

\* C14: what a marker means depends on where the parser stands.  Outside a
\* cell only a cell-open line ends the narrative run, and /// and }}} are
\* narrative text; in the input of a cell only /// ends the input, and every
\* other line is input text; in the output only }}} ends the output, and
\* every other line is output text.  No step inside a cell changes the
\* index, and the compute cell carries the digits of the marker that opened
\* it.
C14_MarkersByMode ==
    /\ [][(pc = "text" /\ error = "none" /\ ~LineRaises)
            => /\ pc' = "cell" => CELL_FRONT(Line)
               /\ Line \in {CELL_MID, CELL_BACK} => ReadAsContent]_vars
    /\ [][(pc = "input" /\ error = "none" /\ ~LineRaises)
            => /\ pc' = "mid" <=> Line = CELL_MID
               /\ Line # CELL_MID => ReadAsContent]_vars
    /\ [][(pc = "output" /\ error = "none" /\ ~LineRaises)
            => /\ pc' = "back" <=> Line = CELL_BACK
               /\ Line # CELL_BACK => ReadAsContent]_vars
    /\ [][(pc \in {"input", "mid", "output"}) => index' = index]_vars
    /\ [][(pc = "output" /\ pc' = "back")
            => Last(cells').index
                 = IntOf(IndexGroup(worksheet_lines[openPos + 1]))]_vars

\* the cell opened by {{{id=1| was emitted with index 1 although the line
\* {{{id=30| was read as its input
C14_Witness ==
    \E i \in 1..Len(cells) :
        /\ IsComputeCell(cells[i])
        /\ cells[i].index = 1
        /\ cells[i].input = OPEN_30
        /\ worksheet_lines[origin[i] + 1] = OPEN_1

\* the lines of the document from cursor a up to, not including, cursor b,
\* as the read helpers turn a run into text
RunText(a, b) == Unescape(Strip(Join(SubSeq(worksheet_lines, a + 1, b))))

\* the document has, from the marker at cursor o on, an opening marker, an
\* input run up to the first /// at cursor m, and an output run up to the
\* first }}} at cursor b
CellRuns(o, m, b) ==
    /\ o < m /\ m < b /\ b < Len(worksheet_lines)
    /\ CELL_FRONT(worksheet_lines[o + 1])
    /\ worksheet_lines[m + 1] = CELL_MID
    /\ \A k \in (o + 1)..(m - 1) : worksheet_lines[k + 1] # CELL_MID
    /\ worksheet_lines[b + 1] = CELL_BACK
    /\ \A k \in (m + 1)..(b - 1) : worksheet_lines[k + 1] # CELL_BACK

\* C15: every emitted compute cell has an input run and an output run in
\* the document: it stands for an opening marker, the lines up to the next
\* ///, and the lines from there up to the next }}}.  When the }}} that
\* ends the output is read, a compute cell is emitted, also when its input,
\* its output or both are empty.
C15_ComputeCellHasBothRuns ==
    /\ [](\A i \in 1..Len(cells) :
             IsComputeCell(cells[i])
                 => \E m, b \in 0..(Len(worksheet_lines) - 1) :
                        /\ origin[i] >= 0
                        /\ CellRuns(origin[i], m, b)
                        /\ cells[i].input = RunText(origin[i] + 1, m)
                        /\ cells[i].output = RunText(m + 1, b))
    /\ [][(pc = "output" /\ error = "none" /\ ~LineRaises
             /\ Line = CELL_BACK)
            => /\ Len(cells') = Len(cells) + 1
               /\ IsComputeCell(Last(cells'))
               /\ Last(cells').input = input
               /\ Last(cells').output = Unescape(Strip(Join(accumulator)))
         ]_vars

\* a compute cell with empty input and empty output was emitted from the
\* three lines {{{id=N|, ///, }}}
C15_Witness ==
    \E i \in 1..Len(cells) :
        /\ IsComputeCell(cells[i])
        /\ cells[i].input = <<>> /\ cells[i].output = <<>>
        /\ CellRuns(origin[i], origin[i] + 1, origin[i] + 2)

AllSpace(str) == \A i \in 1..Len(str) : IsSpace(str[i])

\* raw is str without the whitespace around it, and is not empty
IsTrimmed(raw, str) ==
    /\ raw # <<>>
    /\ ~IsSpace(raw[1])
    /\ ~IsSpace(raw[Len(raw)])
    /\ \E a \in 0..Len(str) :
          /\ a + Len(raw) <= Len(str)
          /\ SubSeq(str, a + 1, a + Len(raw)) = raw
          /\ AllSpace(SubSeq(str, 1, a))
          /\ AllSpace(SubSeq(str, a + Len(raw) + 1, Len(str)))

\* C16: no empty text cell.  When a narrative run ends, a run that is empty
\* or whitespace only emits nothing; any other run emits one text cell whose
\* text before unescape is the joined run without the whitespace around it,
\* which is not empty.  No other step emits a text cell.
C16_NoEmptyTextCell ==
    /\ [][(pc = "text" /\ pc' = "cell")
            => LET joined == Join(accumulator)
                   raw == Strip(joined) IN
               IF AllSpace(joined)
               THEN cells' = cells
               ELSE /\ IsTrimmed(raw, joined)
                    /\ cells' = Append(cells, TextCell(Unescape(raw)))
         ]_vars
    /\ [][(pc # "text" /\ Len(cells') > Len(cells))
            => IsComputeCell(Last(cells'))]_vars

\* the first cell emitted is a compute cell although lines of narrative, all
\* blank, stand before its opening marker
C16_Witness ==
    /\ cells # <<>>
    /\ IsComputeCell(cells[1])
    /\ origin[1] >= 1
    /\ \A k \in 1..origin[1] : AllSpace(worksheet_lines[k])

\* how far the generator is from the end of the pass it is in
PcRank(p) ==
    CASE p = "loop" -> 7
      [] p = "text" -> 6
      [] p = "cell" -> 5
      [] p = "input" -> 4
      [] p = "mid" -> 3
      [] p = "output" -> 2
      [] p = "back" -> 1
      [] OTHER -> 0

\* a bound on the steps the iteration has left: nothing once it is over,
\* else the lines not yet consumed, each worth a whole pass, and the rest of
\* the pass
StepsLeft ==
    IF Terminated THEN 0
    ELSE 1 + (Len(worksheet_lines) - pos) * 8 + PcRank(pc)

\* C17: every iteration ends after finitely many steps.  The cursor stays
\* within 0..number of lines and the cells emitted never outnumber the
\* lines; an iteration that is not over can take a step, and every step
\* lowers a bound on the steps left that is never negative; a pass of the
\* main loop that runs to its end has moved the cursor at least one line
\* forward.
C17_IterationEnds ==
    /\ [](pos \in 0..Len(worksheet_lines))
    /\ [](Len(cells) <= Len(worksheet_lines))
    /\ [](StepsLeft >= 0)
    /\ [](~Terminated
            => pc \in {"loop", "text", "cell", "input", "mid", "output",
                       "back"})
    /\ [][StepsLeft' < StepsLeft]_vars
    /\ [][(pc = "back" /\ pc' = "loop")
            => /\ passStart \in 0..(Len(worksheet_lines) - 1)
               /\ pos' >= passStart + 1]_vars

\* the iteration ended normally after at least two passes of the main loop,
\* the last of them begun after the first line
C17_Witness ==
    /\ pc = "done"
    /\ error = "none"
    /\ passStart > 0
    /\ pos = Len(worksheet_lines)
    /\ Len(cells) >= 2

----------------------------------------------------------------------------
(* The loop of plain_text_output (SpecOutput).                             *)

\* a bound on the steps the call has left
OutputStepsLeft ==
    CASE voPc = "loop" -> Len(s) + 2
      [] voPc = "strip" -> 1
      [] OTHER -> 0

\* C18: plain_text_output terminates.  A pass of its loop that does not
\* stop leaves s strictly shorter; a call that has not returned can take a
\* step, and every step of a call lowers a bound on the steps it has left.
C18_VisibleOutputTerminates ==
    /\ [][(voPc = "loop" /\ voPc' = "loop" /\ voPass' = voPass)
            => Len(s') < Len(s)]_vars
    /\ [][voPass' = voPass => OutputStepsLeft' < OutputStepsLeft]_vars
    /\ [](voPc \in {"loop", "strip", "done"})
    /\ [](Len(s) <= Len(voOutput))

\* a pass went on to another although the first closing tag of the output
\* stands before its first opening tag
C18_Witness ==
    /\ voPc = "loop"
    /\ voPass = 1
    /\ Len(s) < Len(voOutput)
    /\ Find(voOutput, CLOSE_TAG) # -1
    /\ Find(voOutput, CLOSE_TAG) < Find(voOutput, OPEN_TAG)

====
